---- MODULE Spec2Model ----
\* k-anonymity generalisation of the two study cohorts
\* (scripts/00_anonymize_data.py) and the independent re-check of the
\* written files (scripts/validate_anonymization.py).
\*
\* A data frame is the pair (columns, rows): `columns` is the set of column
\* names, `rows` a sequence of [idx |-> pandas index label, v |-> record] whose
\* record v has exactly the fields in `columns`.  Reading a column that is
\* not there is an evaluation error, as it is a KeyError in the program.
\* Every step before the final shuffle is insensitive to row order, so the
\* input frames are enumerated up to row order.
EXTENDS Integers, Sequences, FiniteSets, TLC

VARIABLES cohort, pc, columns, rows, violations, input, applied, reported,
          file, issues,
          script_index, results, failed_scripts, events

\* the state of run_all.main
pipeline == <<script_index, results, failed_scripts, events>>

\* main has not been entered
PipelineNotStarted ==
    /\ script_index = 0
    /\ results = <<>>
    /\ failed_scripts = <<>>
    /\ events = <<>>

vars == <<cohort, pc, columns, rows, violations, input, applied, reported,
          file, issues, pipeline>>

\* ---------------------------------------------------------------------------
\* Bounds of the model
\* ---------------------------------------------------------------------------
MaxRecs == 3

\* ---------------------------------------------------------------------------
\* Configuration and missing values
\* ---------------------------------------------------------------------------
K_ANONYMITY_THRESHOLD == 3

\* float NaN of a numeric column
NaN == -1000

\* NaN / NaT held in an object (string) column
NaNStr == "<NaN>"

\* NaT of a datetime column
NaT == <<>>

Range(s) == {s[i] : i \in DOMAIN s}

\* comparisons with NaN are False
Lt(x, n) == x # NaN /\ x < n

Ge(x, n) == x # NaN /\ x >= n

\* ---------------------------------------------------------------------------
\* Utility functions
\* ---------------------------------------------------------------------------
Digits == <<"0", "1", "2", "3", "4", "5", "6", "7", "8", "9">>

Digit(n) == Digits[n + 1]

\* pd.to_datetime(..., errors='coerce'): a raw value <<y, m, d>> that is a
\* calendar date parses to itself, anything else becomes NaT
DaysIn(y, m) ==
    IF m \in {4, 6, 9, 11} THEN 30
    ELSE IF m # 2 THEN 31
    ELSE IF (y % 4 = 0 /\ y % 100 # 0) \/ y % 400 = 0 THEN 29 ELSE 28

to_datetime(x) ==
    IF Len(x) = 3 /\ x[1] \in 1000..9999 /\ x[2] \in 1..12
       /\ x[3] \in 1..DaysIn(x[1], x[2])
    THEN x ELSE NaT

\* dates.dt.strftime('%Y-%m'); NaT formats to NaN
strftime_Ym(d) ==
    IF d = NaT THEN NaNStr
    ELSE Digit(d[1] \div 1000) \o Digit((d[1] \div 100) % 10)
         \o Digit((d[1] \div 10) % 10) \o Digit(d[1] % 10)
         \o "-" \o Digit(d[2] \div 10) \o Digit(d[2] % 10)

generalize_date_to_month(x) == strftime_Ym(to_datetime(x))

\* pd.cut(x, bins=[0, 18, 40, 60, 120], labels=..., right=False): NaN for a
\* missing value and for a value outside [0, 120)
pd_cut(x) ==
    IF x = NaN THEN NaNStr
    ELSE IF 0 <= x /\ x < 18 THEN "0-17"
    ELSE IF 18 <= x /\ x < 40 THEN "18-39"
    ELSE IF 40 <= x /\ x < 60 THEN "40-59"
    ELSE IF 60 <= x /\ x < 120 THEN "60+"
    ELSE NaNStr

\* .astype(str) of the categorical: the missing category becomes the text nan
astype_str(v) == IF v = NaNStr THEN "nan" ELSE v

\* the group key of a row: the tuple of its values in the given column order
Key(r, qis) == [j \in 1..Len(qis) |-> r.v[qis[j]]]

\* groupby drops every row that has a missing value in a key column
HasNaNKey(r, qis) == \E j \in 1..Len(qis) : r.v[qis[j]] = NaNStr

\* df.groupby(quasi_identifiers).size(): group key -> number of rows
GroupSizes(rs, qis) ==
    LET keys == {Key(rs[i], qis) : i \in {n \in DOMAIN rs : ~HasNaNKey(rs[n], qis)}}
    IN [g \in keys |-> Cardinality({i \in DOMAIN rs : Key(rs[i], qis) = g})]

\* variant: a group of exactly k rows is reported too
IsViolation_Mut(size, k) == size <= k

\* a group is reported when it has fewer than k rows
IsViolation(size, k) == size < k

check_k_anonymity(rs, qis, k) ==
    LET group_sizes == GroupSizes(rs, qis)
    IN [g \in {x \in DOMAIN group_sizes : IsViolation(group_sizes[x], k)}
          |-> group_sizes[g]]

\* variant: the mask compares the first key column only
Mask_Mut(rs, qis, group) ==
    {i \in DOMAIN rs : rs[i].v[qis[1]] # NaNStr /\ rs[i].v[qis[1]] = group[1]}

\* mask = True; mask &= (df[col] == group[i]) for each key column: the
\* positions of the rows that equal the group key; NaN equals nothing
Mask(rs, qis, group) ==
    {i \in DOMAIN rs : \A j \in 1..Len(qis) :
        j <= Len(group) =>
            (rs[i].v[qis[j]] # NaNStr /\ rs[i].v[qis[j]] = group[j])}

SetCol(r, col, val) == [r EXCEPT !.v[col] = val]

AddCol(r, col, val) ==
    [r EXCEPT !.v = [c \in (DOMAIN r.v) \cup {col} |->
                        IF c = col THEN val ELSE r.v[c]]]

DropCols(r, cols) ==
    [r EXCEPT !.v = [c \in (DOMAIN r.v) \ cols |-> r.v[c]]]

\* df.loc[mask & (df[age] < 40), bin] = '0-39'
\* df.loc[mask & (df[age] >= 40), bin] = '40+'
TwoBuckets(rs, mask, ageCol, binCol) ==
    [i \in DOMAIN rs |->
        IF i \in mask /\ Lt(rs[i].v[ageCol], 40) THEN SetCol(rs[i], binCol, "0-39")
        ELSE IF i \in mask /\ Ge(rs[i].v[ageCol], 40) THEN SetCol(rs[i], binCol, "40+")
        ELSE rs[i]]

\* variant: the two buckets are assigned to every row of the frame as soon
\* as one group is violating
TwoBucketLoop_Mut(rs, qis, groups, ageCol, binCol) ==
    IF groups = {} THEN rs ELSE TwoBuckets(rs, DOMAIN rs, ageCol, binCol)

\* for group in <violations>.index: build the mask on the frame as it is
\* now, and if it selects a row put the rows of the group into two buckets
RECURSIVE TwoBucketLoop(_, _, _, _, _)
TwoBucketLoop(rs, qis, groups, ageCol, binCol) ==
    IF groups = {} THEN rs
    ELSE LET g == CHOOSE x \in groups : TRUE
             mask == Mask(rs, qis, g)
         IN TwoBucketLoop(IF mask # {} THEN TwoBuckets(rs, mask, ageCol, binCol)
                          ELSE rs,
                          qis, groups \ {g}, ageCol, binCol)

SelectSeq2(rs, keep) ==
    LET F[n \in 0..Len(rs)] ==
            IF n = 0 THEN <<>>
            ELSE IF n \in keep THEN Append(F[n - 1], rs[n]) ELSE F[n - 1]
    IN F[Len(rs)]

RECURSIVE SumOf(_)
SumOf(f) ==
    IF DOMAIN f = {} THEN 0
    ELSE LET g == CHOOSE x \in DOMAIN f : TRUE
         IN f[g] + SumOf([x \in (DOMAIN f) \ {g} |-> f[x]])

\* ---------------------------------------------------------------------------
\* The files: DataFrame.to_csv(index=False) and pd.read_csv
\* ---------------------------------------------------------------------------
\* columns read back as numbers; their missing value stays NaN
NumericCols == {"id", "idade", "NU_IDADE_N", "age_years", "ANO_NASC"}

\* the texts pd.read_csv takes for a missing value (its default na_values)
NA_VALUES == {"", "#N/A", "#N/A N/A", "#NA", "-1.#IND", "-1.#QNAN", "-NaN",
              "-nan", "1.#IND", "1.#QNAN", "<NA>", "N/A", "NA", "NULL", "NaN",
              "None", "n/a", "nan", "null"}

\* to_csv writes a missing value as the empty field
to_csv_value(c, val) ==
    IF c \in NumericCols THEN val ELSE IF val = NaNStr THEN "" ELSE val

read_csv_value(c, txt) ==
    IF c \in NumericCols THEN txt ELSE IF txt \in NA_VALUES THEN NaNStr ELSE txt

to_csv(cols, rs) ==
    [columns |-> cols,
     lines |-> [i \in DOMAIN rs |-> [c \in cols |-> to_csv_value(c, rs[i].v[c])]]]

\* the index is not written: the frame read back has the labels 0..n-1
read_csv(f) ==
    [i \in DOMAIN f.lines |->
        [idx |-> i - 1,
         v |-> [c \in f.columns |-> read_csv_value(c, f.lines[i][c])]]]

NoFile == [columns |-> {}, lines |-> <<>>]

\* ---------------------------------------------------------------------------
\* Input frames
\* ---------------------------------------------------------------------------
\* nondecreasing sequences of length n over lo..hi
RECURSIVE SortedSeqs(_, _, _)
SortedSeqs(n, lo, hi) ==
    IF n = 0 THEN {<<>>}
    ELSE UNION {{<<t>> \o s : s \in SortedSeqs(n - 1, t, hi)} : t \in lo..hi}

\* raw DT_SIN_PRI values: two dates of the first half of 2023 and a text
\* that is not a date
DatesB == << <<2023, 1, 15>>, <<2023, 2, 10>>, <<2023, 2, 30>> >>

\* raw NU_IDADE_N values: the code 4000 + years, or missing
AgesB == <<4010, 4025, NaN>>

SexB == <<"F", "M">>

NTypesB == Len(DatesB) * Len(AgesB) * Len(SexB)

TypeB(t) ==
    [DT_SIN_PRI |-> DatesB[(t % Len(DatesB)) + 1],
     NU_IDADE_N |-> AgesB[((t \div Len(DatesB)) % Len(AgesB)) + 1],
     CS_SEXO |-> SexB[(t \div (Len(DatesB) * Len(AgesB))) + 1],
     ANO_NASC |-> 1980,
     DT_NOTIFIC |-> <<2023, 3, 1>>]

ColumnsB == {"DT_SIN_PRI", "NU_IDADE_N", "CS_SEXO", "ANO_NASC", "DT_NOTIFIC"}

FrameB(kinds) == [i \in DOMAIN kinds |-> [idx |-> i - 1, v |-> kinds[i]]]

\* k records that share every value, and one more record of any kind
KPlusOneInputsB ==
    {FrameB([i \in 1..(K_ANONYMITY_THRESHOLD + 1) |->
                IF i <= K_ANONYMITY_THRESHOLD THEN TypeB(x) ELSE TypeB(y)]) :
        x \in 0..(NTypesB - 1), y \in 0..(NTypesB - 1)}

\* one record, or k records sharing every value, with an onset in December
\* of the year before
OtherYearInputsB ==
    {FrameB([i \in 1..n |->
                [DT_SIN_PRI |-> <<2022, 12, 20>>, NU_IDADE_N |-> a, CS_SEXO |-> s,
                 ANO_NASC |-> 1980, DT_NOTIFIC |-> <<2023, 1, 5>>]]) :
        a \in Range(AgesB), s \in Range(SexB), n \in {1, K_ANONYMITY_THRESHOLD}}

\* every frame of at most MaxRecs records, the frames of k + 1 records in
\* which k records form one class, and the frames of another year
InputsB ==
    UNION {{FrameB([i \in 1..n |-> TypeB(s[i])]) :
                s \in SortedSeqs(n, 0, NTypesB - 1)} : n \in 0..MaxRecs}
    \cup KPlusOneInputsB \cup OtherYearInputsB

\* ---------------------------------------------------------------------------
\* anonymize_sinan_data (cohort B)
\* ---------------------------------------------------------------------------
geo_cols_to_remove == {"munResLat", "munResLon", "munResAlt", "munResArea"}

health_unit_cols == {"ID_UNIDADE", "ID_REGIONA"}

date_cols == {"DT_NOTIFIC", "DT_SIN_PRI", "DT_INVEST", "DT_CHIK_S1",
              "DT_CHIK_S2", "DT_PRNT", "DT_SORO", "DT_NS1", "DT_VIRAL",
              "DT_PCR", "DT_INTERNA", "DT_OBITO", "DT_ENCERRA", "DT_ALRM",
              "DT_GRAV", "DT_DIGITA"}

residence_cols_to_remove == {"ID_MN_RESI", "ID_RG_RESI", "munResNome",
                             "munResTipo", "munResStatus", "COMUNINF"}

notif_cols_to_remove == {"ID_MUNICIP"}

admin_cols == {"NU_LOTE_I", "NDUPLIC_N", "MIGRADO_W"}

quasi_ids_sinan == <<"DT_SIN_PRI_month", "age_group", "CS_SEXO">>

MonthCol(c) == c \o "_month"

InitB ==
    /\ cohort = "B"
    /\ pc = "b_load"
    /\ columns = ColumnsB
    /\ rows \in InputsB
    /\ input = rows
    /\ violations = <<>>
    /\ applied = <<>>
    /\ reported = 0
    /\ file = NoFile
    /\ issues = {}
    /\ PipelineNotStarted

\* steps 1-8: drop the direct identifiers, replace each date column by its
\* month column
B_Prepare ==
    /\ cohort = "B" /\ pc = "b_load"
    /\ LET dropped == geo_cols_to_remove \cup health_unit_cols \cup {"ANO_NASC"}
                      \cup {"ID_OCUPA_N"} \cup residence_cols_to_remove
                      \cup notif_cols_to_remove \cup admin_cols
           dates == columns \cap date_cols
           kept == (columns \ dropped) \ dates
           cols1 == kept \cup {MonthCol(c) : c \in dates}
       IN /\ columns' = cols1
          /\ rows' = [i \in DOMAIN rows |->
                [rows[i] EXCEPT !.v = [c \in cols1 |->
                    IF c \in kept THEN rows[i].v[c]
                    ELSE LET d == CHOOSE x \in dates : MonthCol(x) = c
                         IN generalize_date_to_month(rows[i].v[d])]]]
    /\ pc' = "b_age"
    /\ UNCHANGED <<pipeline, cohort, violations, input, applied, reported, file, issues>>

\* (NU_IDADE_N - 4000).clip(lower=0, upper=120)
age_years_of(code) ==
    IF code = NaN THEN NaN
    ELSE IF code - 4000 < 0 THEN 0
    ELSE IF code - 4000 > 120 THEN 120
    ELSE code - 4000

\* step 9, first part: the age groups from the coded age
B_AgeGroups ==
    /\ cohort = "B" /\ pc = "b_age"
    /\ IF "NU_IDADE_N" \in columns
       THEN /\ columns' = columns \cup {"age_years", "age_group"}
            /\ rows' = [i \in DOMAIN rows |->
                  LET y == age_years_of(rows[i].v["NU_IDADE_N"])
                  IN AddCol(AddCol(rows[i], "age_years", y),
                            "age_group", astype_str(pd_cut(y)))]
       ELSE UNCHANGED <<columns, rows>>
    /\ pc' = "b_check"
    /\ UNCHANGED <<pipeline, cohort, violations, input, applied, reported, file, issues>>

\* where the run goes after a check of the ladder
B_AfterCheck(v) == IF Cardinality(DOMAIN v) > 0 THEN "b_esc_age" ELSE "b_finish"

\* variant: the all-ages step is taken before the semester step
B_AfterEscalateAge_Mut(v) ==
    IF Cardinality(DOMAIN v) > 0 THEN "b_all_ages" ELSE "b_finish"

B_AfterEscalateAge(v) == IF Cardinality(DOMAIN v) > 0 THEN "b_semester" ELSE "b_finish"

\* variant: the all-ages step follows the semester step whatever the check finds
B_AfterSemester_Mut(v) == "b_all_ages"

B_AfterSemester(v) == IF Cardinality(DOMAIN v) > 0 THEN "b_all_ages" ELSE "b_finish"

\* variant: the run ends after the all-ages step without suppression
B_AfterAllAges_Mut(v) == "b_finish"

B_AfterAllAges(v) == IF Cardinality(DOMAIN v) = 0 THEN "b_finish" ELSE "b_suppress"

\* the check on the key quasi-identifiers, skipped when one is absent
B_Check ==
    /\ cohort = "B" /\ pc = "b_check"
    /\ IF {"DT_SIN_PRI_month", "age_group", "CS_SEXO"} \subseteq columns
       THEN /\ violations' = check_k_anonymity(rows, quasi_ids_sinan,
                                               K_ANONYMITY_THRESHOLD)
            /\ pc' = B_AfterCheck(violations')
       ELSE /\ pc' = "b_finish"
            /\ UNCHANGED violations
    /\ UNCHANGED <<pipeline, cohort, columns, rows, input, applied, reported, file, issues>>

\* first attempt: two age buckets for the rows of the violating groups
B_EscalateAge ==
    /\ cohort = "B" /\ pc = "b_esc_age"
    /\ rows' = TwoBucketLoop(rows, quasi_ids_sinan, DOMAIN violations,
                             "age_years", "age_group")
    /\ violations' = check_k_anonymity(rows', quasi_ids_sinan, K_ANONYMITY_THRESHOLD)
    /\ applied' = Append(applied, "age_2bucket")
    /\ pc' = B_AfterEscalateAge(violations')
    /\ UNCHANGED <<pipeline, cohort, columns, input, reported, file, issues>>

semester_mapping ==
    [p \in {"2023-01", "2023-02", "2023-03", "2023-04", "2023-05", "2023-06",
            "2023-07", "2023-08", "2023-09", "2023-10", "2023-11", "2023-12",
            "2023-Q1", "2023-Q2", "2023-Q3", "2023-Q4"} |->
        IF p \in {"2023-01", "2023-02", "2023-03", "2023-04", "2023-05",
                  "2023-06", "2023-Q1", "2023-Q2"}
        THEN "2023-H1" ELSE "2023-H2"]

\* for period, semester in semester_mapping.items(): every row of the frame
\* that holds the period gets the semester
ToSemester(rs) ==
    [i \in DOMAIN rs |->
        IF rs[i].v["DT_SIN_PRI_month"] \in DOMAIN semester_mapping
        THEN SetCol(rs[i], "DT_SIN_PRI_month",
                    semester_mapping[rs[i].v["DT_SIN_PRI_month"]])
        ELSE rs[i]]

B_Semester ==
    /\ cohort = "B" /\ pc = "b_semester"
    /\ rows' = ToSemester(rows)
    /\ violations' = check_k_anonymity(rows', quasi_ids_sinan, K_ANONYMITY_THRESHOLD)
    /\ applied' = Append(applied, "temporal_half_year")
    /\ pc' = B_AfterSemester(violations')
    /\ UNCHANGED <<pipeline, cohort, columns, input, reported, file, issues>>

\* for group in violations_final.index: df.loc[mask, 'age_group'] = 'ALL_AGES'
RECURSIVE AllAgesLoop(_, _, _)
AllAgesLoop(rs, qis, groups) ==
    IF groups = {} THEN rs
    ELSE LET g == CHOOSE x \in groups : TRUE
             mask == Mask(rs, qis, g)
         IN AllAgesLoop([i \in DOMAIN rs |->
                            IF i \in mask THEN SetCol(rs[i], "age_group", "ALL_AGES")
                            ELSE rs[i]],
                        qis, groups \ {g})

B_AllAges ==
    /\ cohort = "B" /\ pc = "b_all_ages"
    /\ rows' = AllAgesLoop(rows, quasi_ids_sinan, DOMAIN violations)
    /\ violations' = check_k_anonymity(rows', quasi_ids_sinan, K_ANONYMITY_THRESHOLD)
    /\ applied' = Append(applied, "age_all_ages")
    /\ pc' = B_AfterAllAges(violations')
    /\ UNCHANGED <<pipeline, cohort, columns, input, reported, file, issues>>

\* variant: df = df[mask], the selected rows are the ones kept
RECURSIVE SuppressLoop_Mut(_, _, _)
SuppressLoop_Mut(rs, qis, groups) ==
    IF groups = {} THEN rs
    ELSE LET g == CHOOSE x \in groups : TRUE
             mask == Mask(rs, qis, g)
         IN SuppressLoop_Mut(IF mask # {} THEN SelectSeq2(rs, mask) ELSE rs,
                             qis, groups \ {g})

\* for group in violations_ultimate.index: df = df[~mask].copy()
RECURSIVE SuppressLoop(_, _, _)
SuppressLoop(rs, qis, groups) ==
    IF groups = {} THEN rs
    ELSE LET g == CHOOSE x \in groups : TRUE
             mask == Mask(rs, qis, g)
         IN SuppressLoop(IF mask # {} THEN SelectSeq2(rs, (DOMAIN rs) \ mask) ELSE rs,
                         qis, groups \ {g})

\* variant: the report counts the violating classes, not their records
B_Suppress_Mut ==
    /\ cohort = "B" /\ pc = "b_suppress"
    /\ reported' = Cardinality(DOMAIN violations)
    /\ rows' = SuppressLoop(rows, quasi_ids_sinan, DOMAIN violations)
    /\ applied' = Append(applied, "suppression")
    /\ pc' = "b_finish"
    /\ UNCHANGED <<pipeline, cohort, columns, violations, input, file, issues>>

B_Suppress ==
    /\ cohort = "B" /\ pc = "b_suppress"
    /\ reported' = SumOf(violations)
    /\ rows' = SuppressLoop(rows, quasi_ids_sinan, DOMAIN violations)
    /\ applied' = Append(applied, "suppression")
    /\ pc' = "b_finish"
    /\ UNCHANGED <<pipeline, cohort, columns, violations, input, file, issues>>

\* variant: the coded age is not dropped
B_Finish_Mut ==
    /\ cohort = "B" /\ pc = "b_finish"
    /\ columns' = columns \ {"age_years"}
    /\ rows' = [i \in DOMAIN rows |-> DropCols(rows[i], {"age_years"})]
    /\ file' = to_csv(columns', rows')
    /\ pc' = "done"
    /\ UNCHANGED <<pipeline, cohort, violations, input, applied, reported, issues>>

\* step 10 and the save: drop the temporary and the exact age, write the file
B_Finish ==
    /\ cohort = "B" /\ pc = "b_finish"
    /\ columns' = columns \ {"age_years", "NU_IDADE_N"}
    /\ rows' = [i \in DOMAIN rows |-> DropCols(rows[i], {"age_years", "NU_IDADE_N"})]
    /\ file' = to_csv(columns', rows')
    /\ pc' = "done"
    /\ UNCHANGED <<pipeline, cohort, violations, input, applied, reported, issues>>

NextB ==
    \/ B_Prepare
    \/ B_AgeGroups
    \/ B_Check
    \/ B_EscalateAge
    \/ B_Semester
    \/ B_AllAges
    \/ B_Suppress
    \/ B_Finish

SpecB == InitB /\ [][NextB]_vars

\* ---------------------------------------------------------------------------
\* anonymize_rtpcr_data (cohort A)
\* ---------------------------------------------------------------------------
\* raw data values: a date and a text that is not a date
DatesA == << <<2023, 1, 15>>, <<2023, 2, 30>> >>

AgesA == <<45, 70>>

SexA == <<"F", "M">>

BairrosA == <<"CENTRO", "ALDEOTA">>

NTypesA == Len(DatesA) * Len(AgesA) * Len(SexA) * Len(BairrosA)

KindA(d, a, s, b) ==
    [data |-> d, idade |-> a, sexo |-> s, bairro |-> b, sintomas |-> "febre"]

TypeA(t) ==
    KindA(DatesA[(t % Len(DatesA)) + 1],
          AgesA[((t \div Len(DatesA)) % Len(AgesA)) + 1],
          SexA[((t \div (Len(DatesA) * Len(AgesA))) % Len(SexA)) + 1],
          BairrosA[(t \div (Len(DatesA) * Len(AgesA) * Len(SexA))) + 1])

ColumnsA == {"id", "data", "idade", "sexo", "bairro", "sintomas"}

\* the frame read from the rows' raw values: the file carries an id column
FrameA(kinds) ==
    [i \in DOMAIN kinds |->
        [idx |-> i - 1,
         v |-> [c \in ColumnsA |-> IF c = "id" THEN i ELSE kinds[i][c]]]]

\* ten records of one month, age and sex: nine of one neighbourhood and one
\* whose neighbourhood occurs only once
ScenarioInputsA ==
    {FrameA([i \in 1..10 |->
                IF i <= 9 THEN KindA(DatesA[1], a, s, BairrosA[1])
                ELSE KindA(DatesA[1], a, s, BairrosA[2])]) :
        a \in Range(AgesA), s \in Range(SexA)}

\* six records over two neighbourhoods of three records each, every class of
\* (month, age, sex, neighbourhood) below k
MergeInputsA ==
    {FrameA([i \in 1..6 |->
                KindA(DatesA[1], a,
                      IF i \in {1, 2, 4} THEN "F" ELSE "M",
                      IF i <= 3 THEN BairrosA[1] ELSE BairrosA[2])]) :
        a \in Range(AgesA)}

\* k records that share every value, and one more record of any kind
KPlusOneInputsA ==
    {FrameA([i \in 1..(K_ANONYMITY_THRESHOLD + 1) |->
                IF i <= K_ANONYMITY_THRESHOLD THEN TypeA(x) ELSE TypeA(y)]) :
        x \in 0..(NTypesA - 1), y \in 0..(NTypesA - 1)}

\* one record, or k records sharing every value, whose idade field is empty
MissingAgeInputsA ==
    {FrameA([i \in 1..n |-> KindA(d, NaN, s, b)]) :
        d \in Range(DatesA), s \in Range(SexA), b \in Range(BairrosA),
        n \in {1, K_ANONYMITY_THRESHOLD}}

\* every frame of at most MaxRecs records, the frames of k + 1 records in
\* which k records form one class, the two scenarios, and the frames without
\* an age
InputsA ==
    UNION {{FrameA([i \in 1..n |-> TypeA(s[i])]) :
                s \in SortedSeqs(n, 0, NTypesA - 1)} : n \in 0..MaxRecs}
    \cup KPlusOneInputsA \cup ScenarioInputsA \cup MergeInputsA
    \cup MissingAgeInputsA

quasi_ids_rtpcr == <<"year_month", "age_bin", "sexo", "bairro">>

InitA ==
    /\ cohort = "A"
    /\ pc = "a_load"
    /\ columns = ColumnsA
    /\ rows \in InputsA
    /\ input = rows
    /\ violations = <<>>
    /\ applied = <<>>
    /\ reported = 0
    /\ file = NoFile
    /\ issues = {}
    /\ PipelineNotStarted

\* step 1: keep the date as data_original, add year_month; df['data'] and the
\* groupby over year_month, idade, sexo raise KeyError on an absent column
A_GeneralizeDates ==
    /\ cohort = "A" /\ pc = "a_load"
    /\ IF {"data", "idade", "sexo"} \subseteq columns
       THEN /\ columns' = columns \cup {"data_original", "year_month"}
            /\ rows' = [i \in DOMAIN rows |->
                  AddCol(AddCol(rows[i], "data_original", rows[i].v["data"]),
                         "year_month", generalize_date_to_month(rows[i].v["data"]))]
            /\ pc' = "a_age"
       ELSE /\ pc' = "a_error"
            /\ UNCHANGED <<columns, rows>>
    /\ UNCHANGED <<pipeline, cohort, violations, input, applied, reported, file, issues>>

\* the groups generalize_age_for_small_groups finds below k after binning
small_groups(rs, group_cols, k) ==
    DOMAIN check_k_anonymity(rs, group_cols \o <<"age_bin">>, k)

\* generalize_age_for_small_groups(df, age_col, group_cols, k): four bins for
\* every row, then two buckets for the rows of the small groups
generalize_age_for_small_groups(rs, age_col, group_cols, k) ==
    LET binned == [i \in DOMAIN rs |->
                      AddCol(rs[i], "age_bin", astype_str(pd_cut(rs[i].v[age_col])))]
    IN TwoBucketLoop(binned, group_cols \o <<"age_bin">>,
                     small_groups(binned, group_cols, k), age_col, "age_bin")

\* step 2; the groupby over year_month, sexo, bairro, age_bin raises KeyError
\* on an absent column
A_GeneralizeAge ==
    /\ cohort = "A" /\ pc = "a_age"
    /\ IF "bairro" \in columns
       THEN /\ columns' = columns \cup {"age_bin"}
            /\ rows' = generalize_age_for_small_groups(
                          rows, "idade", <<"year_month", "sexo", "bairro">>,
                          K_ANONYMITY_THRESHOLD)
            /\ applied' = IF \E i \in DOMAIN rows' :
                                rows'[i].v["age_bin"] \in {"0-39", "40+"}
                          THEN Append(applied, "age_2bucket") ELSE applied
            /\ pc' = "a_rare"
       ELSE /\ pc' = "a_error"
            /\ UNCHANGED <<columns, rows, applied>>
    /\ UNCHANGED <<pipeline, cohort, violations, input, reported, file, issues>>

\* df['bairro'].value_counts(): the count of each value, missing values left out
value_counts(rs, col) ==
    LET vals == {rs[i].v[col] : i \in DOMAIN rs} \ {NaNStr}
    IN [x \in vals |-> Cardinality({i \in DOMAIN rs : rs[i].v[col] = x})]

rare_neighborhoods(rs) ==
    LET neighborhood_counts == value_counts(rs, "bairro")
    IN {b \in DOMAIN neighborhood_counts :
            neighborhood_counts[b] < K_ANONYMITY_THRESHOLD}

\* variant: a rare neighbourhood keeps its name behind the prefix OTHER-
CollapseRare_Mut(rs) ==
    LET rare == rare_neighborhoods(rs)
    IN [i \in DOMAIN rs |->
            IF rs[i].v["bairro"] \in rare
            THEN SetCol(rs[i], "bairro", "OTHER-" \o rs[i].v["bairro"])
            ELSE rs[i]]

\* df.loc[df['bairro'].isin(rare_neighborhoods), 'bairro'] = 'OTHER'
CollapseRare(rs) ==
    LET rare == rare_neighborhoods(rs)
    IN [i \in DOMAIN rs |->
            IF rs[i].v["bairro"] \in rare THEN SetCol(rs[i], "bairro", "OTHER")
            ELSE rs[i]]

\* step 3
A_RareNeighborhoods ==
    /\ cohort = "A" /\ pc = "a_rare"
    /\ rows' = CollapseRare(rows)
    /\ applied' = IF rare_neighborhoods(rows) # {}
                  THEN Append(applied, "categorical_other") ELSE applied
    /\ pc' = "a_text"
    /\ UNCHANGED <<pipeline, cohort, columns, violations, input, reported, file, issues>>

\* step 4
A_DropFreeText ==
    /\ cohort = "A" /\ pc = "a_text"
    /\ IF "sintomas" \in columns
       THEN /\ columns' = columns \ {"sintomas"}
            /\ rows' = [i \in DOMAIN rows |-> DropCols(rows[i], {"sintomas"})]
       ELSE UNCHANGED <<columns, rows>>
    /\ pc' = "a_check"
    /\ UNCHANGED <<pipeline, cohort, violations, input, applied, reported, file, issues>>

A_AfterCheck(v) == IF Cardinality(DOMAIN v) > 0 THEN "a_collapse" ELSE "a_finish"

A_AfterCollapse(v) == IF Cardinality(DOMAIN v) > 0 THEN "a_broaden" ELSE "a_recheck"

\* step 5: the final validation
A_FinalCheck ==
    /\ cohort = "A" /\ pc = "a_check"
    /\ violations' = check_k_anonymity(rows, quasi_ids_rtpcr, K_ANONYMITY_THRESHOLD)
    /\ pc' = A_AfterCheck(violations')
    /\ UNCHANGED <<pipeline, cohort, columns, rows, input, applied, reported, file, issues>>

\* for group in violations.index: df.loc[mask, 'bairro'] = 'OTHER'
RECURSIVE OtherLoop(_, _, _)
OtherLoop(rs, qis, groups) ==
    IF groups = {} THEN rs
    ELSE LET g == CHOOSE x \in groups : TRUE
             mask == Mask(rs, qis, g)
         IN OtherLoop([i \in DOMAIN rs |->
                          IF i \in mask THEN SetCol(rs[i], "bairro", "OTHER")
                          ELSE rs[i]],
                      qis, groups \ {g})

A_CollapseNeighborhood ==
    /\ cohort = "A" /\ pc = "a_collapse"
    /\ rows' = OtherLoop(rows, quasi_ids_rtpcr, DOMAIN violations)
    /\ violations' = check_k_anonymity(rows', quasi_ids_rtpcr, K_ANONYMITY_THRESHOLD)
    /\ applied' = Append(applied, "categorical_other")
    /\ pc' = A_AfterCollapse(violations')
    /\ UNCHANGED <<pipeline, cohort, columns, input, reported, file, issues>>

\* variant: the final resort puts the rows of the violating groups back into
\* the four bins
A_BroadenAge_Mut ==
    /\ cohort = "A" /\ pc = "a_broaden"
    /\ rows' = [i \in DOMAIN rows |->
          IF Key(rows[i], quasi_ids_rtpcr) \in DOMAIN violations
          THEN SetCol(rows[i], "age_bin", astype_str(pd_cut(rows[i].v["idade"])))
          ELSE rows[i]]
    /\ applied' = Append(applied, "age_2bucket")
    /\ pc' = "a_recheck"
    /\ UNCHANGED <<pipeline, cohort, columns, violations, input, reported, file, issues>>

\* final resort: only two age groups for the rows of the violating groups
A_BroadenAge ==
    /\ cohort = "A" /\ pc = "a_broaden"
    /\ rows' = TwoBucketLoop(rows, quasi_ids_rtpcr, DOMAIN violations,
                             "idade", "age_bin")
    /\ applied' = Append(applied, "age_2bucket")
    /\ pc' = "a_recheck"
    /\ UNCHANGED <<pipeline, cohort, columns, violations, input, reported, file, issues>>

\* the final check, whose count of violations is printed
A_FinalRecheck ==
    /\ cohort = "A" /\ pc = "a_recheck"
    /\ violations' = check_k_anonymity(rows, quasi_ids_rtpcr, K_ANONYMITY_THRESHOLD)
    /\ pc' = "a_finish"
    /\ UNCHANGED <<pipeline, cohort, columns, rows, input, applied, reported, file, issues>>

\* np.random.RandomState(42).permutation(n) for n = 0..12: the positions
\* df.sample(frac=1, random_state=42) takes, in order
Permutation42 ==
    << <<>>,
       <<0>>,
       <<1, 0>>,
       <<0, 1, 2>>,
       <<1, 3, 0, 2>>,
       <<1, 4, 2, 0, 3>>,
       <<0, 1, 5, 2, 4, 3>>,
       <<0, 1, 5, 2, 4, 3, 6>>,
       <<1, 5, 0, 7, 2, 4, 3, 6>>,
       <<7, 1, 5, 0, 8, 2, 4, 3, 6>>,
       <<8, 1, 5, 0, 7, 2, 9, 4, 3, 6>>,
       <<5, 0, 9, 10, 2, 1, 8, 4, 7, 3, 6>>,
       <<10, 9, 0, 8, 5, 2, 1, 11, 4, 7, 3, 6>> >>

\* variant: df.sample(frac=1, replace=True, random_state=42): positions drawn
\* with replacement
sample_Mut(rs) ==
    [i \in DOMAIN rs |-> rs[(Permutation42[Len(rs) + 1][i] \div 2) + 1]]

\* df.sample(frac=1, random_state=42)
sample(rs) == [i \in DOMAIN rs |-> rs[Permutation42[Len(rs) + 1][i] + 1]]

\* .reset_index(drop=True)
reset_index(rs) == [i \in DOMAIN rs |-> [rs[i] EXCEPT !.idx = i - 1]]

\* df['id'] = range(1, len(df) + 1)
assign_id(rs) == [i \in DOMAIN rs |-> AddCol(rs[i], "id", i)]

\* steps 6 and 7 and the save
A_Finish ==
    /\ cohort = "A" /\ pc = "a_finish"
    /\ columns' = (columns \ {"data", "data_original"}) \cup {"id"}
    /\ rows' = assign_id(reset_index(sample(
                  [i \in DOMAIN rows |-> DropCols(rows[i], {"data", "data_original"})])))
    /\ file' = to_csv(columns', rows')
    /\ pc' = "done"
    /\ UNCHANGED <<pipeline, cohort, violations, input, applied, reported, issues>>

NextA ==
    \/ A_GeneralizeDates
    \/ A_GeneralizeAge
    \/ A_RareNeighborhoods
    \/ A_DropFreeText
    \/ A_FinalCheck
    \/ A_CollapseNeighborhood
    \/ A_BroadenAge
    \/ A_FinalRecheck
    \/ A_Finish

SpecA == InitA /\ [][NextA]_vars

\* ---------------------------------------------------------------------------
\* validate_anonymization.check_k_anonymity, on the file of the cohort
\* ---------------------------------------------------------------------------
\* group_sizes.min(): NaN when there is no group
GroupMin(gs) ==
    IF DOMAIN gs = {} THEN NaN
    ELSE CHOOSE m \in Range(gs) : \A x \in Range(gs) : m <= x

\* (group_sizes < 3).sum()
GroupsBelow3(gs) == Cardinality({g \in DOMAIN gs : gs[g] < 3})

KAnonymityFails(gs) == GroupsBelow3(gs) > 0 \/ Lt(GroupMin(gs), 3)

Validator_RTPCR(f) ==
    IF KAnonymityFails(GroupSizes(read_csv(f), quasi_ids_rtpcr))
    THEN {"RTPCR: K-anonymity violated"} ELSE {}

Validator_SINAN(f) ==
    IF "DT_SIN_PRI_month" \in f.columns /\ "age_group" \in f.columns
    THEN IF KAnonymityFails(GroupSizes(read_csv(f), quasi_ids_sinan))
         THEN {"SINAN: K-anonymity violated"} ELSE {}
    ELSE {"SINAN: Cannot validate k-anonymity (missing required fields)"}

\* the columns whose absence makes the groupby of check_k_anonymity raise
\* KeyError: every grouping column of the RT-PCR file; CS_SEXO of the SINAN
\* file, the other two being tested before the groupby
GroupbyRaises(c, f) ==
    IF c = "A" THEN ~(Range(quasi_ids_rtpcr) \subseteq f.columns)
    ELSE /\ "DT_SIN_PRI_month" \in f.columns /\ "age_group" \in f.columns
         /\ "CS_SEXO" \notin f.columns

\* ---------------------------------------------------------------------------
\* validate_anonymization.check_pii_fields, on the file of the cohort
\* ---------------------------------------------------------------------------
pii_fields_rtpcr == {"nome", "cpf", "rg", "endereco", "telefone", "email",
                     "data", "sintomas"}

required_anon == {"year_month", "age_bin"}

pii_fields_sinan == {"ANO_NASC", "NU_IDADE_N", "munResLat", "munResLon",
                     "ID_UNIDADE", "ID_MN_RESI", "munResNome", "ID_MUNICIP"}

required_anon_sinan == {"age_group"}

found_pii(c, f) ==
    (IF c = "A" THEN pii_fields_rtpcr ELSE pii_fields_sinan) \cap f.columns

missing_anon(c, f) ==
    (IF c = "A" THEN required_anon ELSE required_anon_sinan) \ f.columns

DatasetName(c) == IF c = "A" THEN "RTPCR" ELSE "SINAN"

check_pii_fields(c, f) ==
    (IF found_pii(c, f) # {}
     THEN {DatasetName(c) \o ": Found PII fields"} ELSE {})
    \cup (IF missing_anon(c, f) # {}
          THEN {DatasetName(c) \o ": Missing anonymized fields"} ELSE {})

\* ---------------------------------------------------------------------------
\* validate_anonymization.main: the four checks in turn, then the summary
\* ---------------------------------------------------------------------------
required_docs == {"DATA_ANONYMIZATION.md", "CODEBOOK.md"}

required_scripts == {"00_anonymize_data.py", "01_data_preprocessing.py"}

\* what os.path.exists can find under docs/ and scripts/
DocsOnDisk == {required_docs, {"DATA_ANONYMIZATION.md"}}

ScriptsOnDisk == {required_scripts, {"00_anonymize_data.py"}}

V_CheckPiiFields ==
    /\ pc = "done"
    /\ issues' = issues \cup check_pii_fields(cohort, file)
    /\ pc' = "v_pii"
    /\ UNCHANGED <<pipeline, cohort, columns, rows, violations, input, applied, reported, file>>

\* an uncaught KeyError ends the Validator before the later checks and the
\* summary
V_CheckKAnonymity ==
    /\ pc = "v_pii"
    /\ IF GroupbyRaises(cohort, file)
       THEN /\ pc' = "v_error"
            /\ UNCHANGED issues
       ELSE /\ issues' = issues \cup (IF cohort = "A" THEN Validator_RTPCR(file)
                                      ELSE Validator_SINAN(file))
            /\ pc' = "validated"
    /\ UNCHANGED <<pipeline, cohort, columns, rows, violations, input, applied, reported, file>>

V_CheckDocumentation ==
    /\ pc = "validated"
    /\ \E found \in DocsOnDisk :
          issues' = issues \cup {"Missing documentation: " \o d :
                                    d \in required_docs \ found}
    /\ pc' = "v_docs"
    /\ UNCHANGED <<pipeline, cohort, columns, rows, violations, input, applied, reported, file>>

V_CheckScripts ==
    /\ pc = "v_docs"
    /\ \E found \in ScriptsOnDisk :
          issues' = issues \cup {"Missing script: " \o d :
                                    d \in required_scripts \ found}
    /\ pc' = "v_scripts"
    /\ UNCHANGED <<pipeline, cohort, columns, rows, violations, input, applied, reported, file>>

\* sys.exit(1) if all_issues else sys.exit(0)
V_Exit ==
    /\ pc = "v_scripts"
    /\ pc' = IF issues # {} THEN "exit_1" ELSE "exit_0"
    /\ UNCHANGED <<pipeline, cohort, columns, rows, violations, input, applied, reported, file,
                   issues>>

NextV ==
    \/ V_CheckPiiFields
    \/ V_CheckKAnonymity
    \/ V_CheckDocumentation
    \/ V_CheckScripts
    \/ V_Exit

Init == InitA \/ InitB

Next == NextA \/ NextB \/ NextV

Spec == Init /\ [][Next]_vars

\* ---------------------------------------------------------------------------
\* Input files of other schemas: an expected column absent, or a column of
\* the Validator's lists present
\* ---------------------------------------------------------------------------
\* the value of a column the base frame does not carry
FillValue(c) == IF c \in date_cols THEN <<2023, 3, 1>> ELSE "x"

\* the frame with exactly the columns cols
Reframe(rs, cols) ==
    [i \in DOMAIN rs |->
        [rs[i] EXCEPT !.v = [c \in cols |->
            IF c \in DOMAIN rs[i].v THEN rs[i].v[c] ELSE FillValue(c)]]]

SchemasA ==
    {ColumnsA} \cup {ColumnsA \ {c} : c \in ColumnsA}
    \cup {ColumnsA \cup {c} : c \in pii_fields_rtpcr}

SchemasB ==
    {ColumnsB} \cup {ColumnsB \ {c} : c \in ColumnsB}
    \cup {ColumnsB \cup {c} : c \in pii_fields_sinan}

\* one record, or k records sharing every value
SchemaSizes == {1, K_ANONYMITY_THRESHOLD}

SchemaInputsA ==
    {[columns |-> sch,
      rows |-> Reframe(FrameA([i \in 1..n |-> TypeA(t)]), sch)] :
        sch \in SchemasA, t \in 0..(NTypesA - 1), n \in SchemaSizes}

SchemaInputsB ==
    {[columns |-> sch,
      rows |-> Reframe(FrameB([i \in 1..n |-> TypeB(t)]), sch)] :
        sch \in SchemasB, t \in 0..(NTypesB - 1), n \in SchemaSizes}

InitSchema ==
    /\ cohort \in {"A", "B"}
    /\ pc = IF cohort = "A" THEN "a_load" ELSE "b_load"
    /\ \E f \in IF cohort = "A" THEN SchemaInputsA ELSE SchemaInputsB :
          /\ columns = f.columns
          /\ rows = f.rows
    /\ input = rows
    /\ violations = <<>>
    /\ applied = <<>>
    /\ reported = 0
    /\ file = NoFile
    /\ issues = {}
    /\ PipelineNotStarted

SpecSchema == InitSchema /\ [][Next]_vars

\* ---------------------------------------------------------------------------
\* The age hierarchy on its own: two records of arbitrary age taken through
\* the four-bin, two-bucket and all-ages assignments of the anonymizers
\* ---------------------------------------------------------------------------
\* raw idade values of cohort A
HierarchyAgesA == {-1, 0, 17, 18, 39, 40, 59, 60, 119, 120, 130, NaN}

\* raw NU_IDADE_N codes of cohort B (a code below 4000 is an age in months or days)
HierarchyCodesB == {3006, 4000, 4017, 4018, 4039, 4040, 4059, 4060, 4119, 4120,
                    4130, NaN}

AgeColOf(c) == IF c = "A" THEN "idade" ELSE "age_years"

BinColOf(c) == IF c = "A" THEN "age_bin" ELSE "age_group"

InitAge ==
    /\ cohort \in {"A", "B"}
    /\ pc = "h_raw"
    /\ columns = {AgeColOf(cohort)}
    /\ rows \in {[i \in 1..2 |->
                    [idx |-> i - 1,
                     v |-> [c \in {AgeColOf(cohort)} |->
                              IF cohort = "A" THEN a[i] ELSE age_years_of(a[i])]]] :
                 a \in IF cohort = "A" THEN HierarchyAgesA \X HierarchyAgesA
                       ELSE HierarchyCodesB \X HierarchyCodesB}
    /\ input = rows
    /\ violations = <<>>
    /\ applied = <<>>
    /\ reported = 0
    /\ file = NoFile
    /\ issues = {}
    /\ PipelineNotStarted

\* pd.cut(...).astype(str) into the bin column
H_FourBins ==
    /\ pc = "h_raw"
    /\ columns' = columns \cup {BinColOf(cohort)}
    /\ rows' = [i \in DOMAIN rows |->
          AddCol(rows[i], BinColOf(cohort),
                 astype_str(pd_cut(rows[i].v[AgeColOf(cohort)])))]
    /\ pc' = "h_bin4"
    /\ UNCHANGED <<pipeline, cohort, violations, input, applied, reported, file, issues>>

\* the two-bucket assignment with both records selected
H_TwoBuckets ==
    /\ pc = "h_bin4"
    /\ rows' = TwoBuckets(rows, DOMAIN rows, AgeColOf(cohort), BinColOf(cohort))
    /\ pc' = "h_bin2"
    /\ UNCHANGED <<pipeline, cohort, columns, violations, input, applied, reported, file, issues>>

\* the all-ages assignment with both records selected
H_AllAges ==
    /\ pc = "h_bin2"
    /\ rows' = [i \in DOMAIN rows |-> SetCol(rows[i], BinColOf(cohort), "ALL_AGES")]
    /\ pc' = "h_all"
    /\ UNCHANGED <<pipeline, cohort, columns, violations, input, applied, reported, file, issues>>

\* 01_data_preprocessing.AGE_GROUP_MIDPOINTS, in tenths of a year
\* variant: the table has no entry for ALL_AGES
AGE_GROUP_MIDPOINTS_Mut ==
    [l \in {"0-17", "18-39", "40-59", "60+", "0-39", "40+"} |->
        CASE l = "0-17" -> 85
          [] l = "18-39" -> 285
          [] l = "40-59" -> 495
          [] l = "60+" -> 700
          [] l = "0-39" -> 200
          [] l = "40+" -> 600]

AGE_GROUP_MIDPOINTS ==
    [l \in {"0-17", "18-39", "40-59", "60+", "0-39", "40+", "ALL_AGES"} |->
        CASE l = "0-17" -> 85
          [] l = "18-39" -> 285
          [] l = "40-59" -> 495
          [] l = "60+" -> 700
          [] l = "0-39" -> 200
          [] l = "40+" -> 600
          [] l = "ALL_AGES" -> 400]

\* Series.map(dict): the value of the key, NaN for a value that is no key
map_dict(d, x) == IF x \in DOMAIN d THEN d[x] ELSE NaN

\* load_sinan_data on the file written with the age groups of either level:
\* the labels are read back from the file and idade is their midpoint
H_LoadSinan ==
    /\ cohort = "B" /\ pc \in {"h_bin4", "h_bin2", "h_all"}
    /\ columns' = columns \cup {"idade"}
    /\ rows' = LET df == read_csv(to_csv(columns, rows))
               IN [i \in DOMAIN df |->
                     AddCol(df[i], "idade",
                            map_dict(AGE_GROUP_MIDPOINTS, df[i].v["age_group"]))]
    /\ pc' = "h_mid"
    /\ UNCHANGED <<pipeline, cohort, violations, input, applied, reported, file, issues>>

NextAge == H_FourBins \/ H_TwoBuckets \/ H_AllAges \/ H_LoadSinan

SpecAge == InitAge /\ [][NextAge]_vars

\* ---------------------------------------------------------------------------
\* run_all: the analysis pipeline
\* ---------------------------------------------------------------------------
SCRIPTS == <<"01_data_preprocessing.py", "02_descriptive_analysis.py",
             "03_diagnostic_accuracy.py", "04_comparative_analysis.py",
             "05_hospitalization_analysis.py", "06_cluster_analysis.py",
             "07_selection_bias_analysis.py", "08_generate_figures.py",
             "09_validate_results.py">>

\* how subprocess.run(..., check=True) ends: exit code 0, a non-zero exit
\* code, or any other exception
Outcomes == {"ok", "CalledProcessError", "Exception"}

\* results[script] = success
Record(d, script, success) ==
    [s \in DOMAIN d \cup {script} |-> IF s = script THEN success ELSE d[s]]

InitRunAll ==
    /\ cohort = "none"
    /\ pc = "r_loop"
    /\ columns = {}
    /\ rows = <<>>
    /\ input = <<>>
    /\ violations = <<>>
    /\ applied = <<>>
    /\ reported = 0
    /\ file = NoFile
    /\ issues = {}
    /\ script_index = 1
    /\ results = <<>>
    /\ failed_scripts = <<>>
    /\ events = <<>>

\* the loop takes the next script and run_script is entered: a script that
\* is not on disk returns False at once, any other is started as a
\* subprocess and awaited
R_RunScript ==
    /\ pc = "r_loop" /\ script_index <= Len(SCRIPTS)
    /\ LET script == SCRIPTS[script_index]
       IN \E exists \in BOOLEAN :
             IF ~exists
             THEN /\ events' = Append(events, <<"not found", script>>)
                  /\ results' = Record(results, script, FALSE)
                  /\ failed_scripts' = Append(failed_scripts, script)
                  /\ script_index' = script_index + 1
                  /\ pc' = "r_loop"
             ELSE /\ events' = Append(events, <<"start", script>>)
                  /\ pc' = "r_running"
                  /\ UNCHANGED <<script_index, results, failed_scripts>>
    /\ UNCHANGED <<cohort, columns, rows, violations, input, applied, reported,
                   file, issues>>

\* variant: the loop is left at the first script that fails
R_ScriptEnds_Mut ==
    /\ pc = "r_running"
    /\ \E outcome \in Outcomes :
          LET script == SCRIPTS[script_index]
              success == (outcome = "ok")
          IN /\ events' = Append(events, <<"end", script, outcome>>)
             /\ results' = Record(results, script, success)
             /\ failed_scripts' = IF success THEN failed_scripts
                                  ELSE Append(failed_scripts, script)
             /\ script_index' = IF success THEN script_index + 1
                                ELSE Len(SCRIPTS) + 1
    /\ pc' = "r_loop"
    /\ UNCHANGED <<cohort, columns, rows, violations, input, applied, reported,
                   file, issues>>

\* subprocess.run returns or raises; run_script returns and the loop records
\* the result
R_ScriptEnds ==
    /\ pc = "r_running"
    /\ LET script == SCRIPTS[script_index]
       IN \E outcome \in Outcomes :
             LET success == (outcome = "ok")
             IN /\ events' = Append(events, <<"end", script, outcome>>)
                /\ results' = Record(results, script, success)
                /\ failed_scripts' = IF success THEN failed_scripts
                                     ELSE Append(failed_scripts, script)
    /\ script_index' = script_index + 1
    /\ pc' = "r_loop"
    /\ UNCHANGED <<cohort, columns, rows, violations, input, applied, reported,
                   file, issues>>

\* the summary after the loop and the return code of main, passed to sys.exit
R_Summary ==
    /\ pc = "r_loop" /\ script_index > Len(SCRIPTS)
    /\ pc' = IF failed_scripts = <<>> THEN "r_exit_0" ELSE "r_exit_1"
    /\ UNCHANGED <<pipeline, cohort, columns, rows, violations, input, applied,
                   reported, file, issues>>

\* Ctrl-C at any point of main: KeyboardInterrupt is not an Exception, so it
\* leaves run_script and main and the process exits with 130
R_Interrupt ==
    /\ pc \in {"r_loop", "r_running"}
    /\ pc' = "r_exit_130"
    /\ UNCHANGED <<pipeline, cohort, columns, rows, violations, input, applied,
                   reported, file, issues>>

NextRunAll == R_RunScript \/ R_ScriptEnds \/ R_Summary \/ R_Interrupt

SpecRunAll == InitRunAll /\ [][NextRunAll]_vars

\* ---------------------------------------------------------------------------
\* Properties
\* ---------------------------------------------------------------------------
QisOf(c) == IF c = "A" THEN quasi_ids_rtpcr ELSE quasi_ids_sinan

\* the records that hold the same quasi-identifier values as row i, a missing
\* value being a value like any other
ClassOf(rs, i, qis) ==
    {n \in DOMAIN rs : \A j \in 1..Len(qis) : rs[n].v[qis[j]] = rs[i].v[qis[j]]}

ClassSize(rs, i, qis) == Cardinality(ClassOf(rs, i, qis))

KAnonymous(rs, qis) ==
    \A i \in DOMAIN rs : ClassSize(rs, i, qis) >= K_ANONYMITY_THRESHOLD

Returned ==
    pc \in {"done", "v_pii", "v_error", "validated", "v_docs", "v_scripts",
            "exit_0", "exit_1"}

\* C1: when anonymize_sinan_data returns, every equivalence class of the
\* returned records over (DT_SIN_PRI_month, age_group, CS_SEXO) has at least
\* K_ANONYMITY_THRESHOLD records.
C1_SinanOutputKAnonymous ==
    (cohort = "B" /\ Returned) => KAnonymous(rows, quasi_ids_sinan)

\* C2: when anonymize_rtpcr_data returns, every equivalence class of the
\* returned records over (year_month, age_bin, sexo, bairro) has at least
\* K_ANONYMITY_THRESHOLD records.
C2_RtpcrOutputKAnonymous ==
    (cohort = "A" /\ Returned) => KAnonymous(rows, quasi_ids_rtpcr)

\* C3: scenario A: after the run on ten records of one month, age bucket and
\* sex, nine of one neighbourhood and one of a neighbourhood occurring once,
\* the unique neighbourhood is OTHER and the final check reports no
\* violating class.
C3_ScenarioA ==
    (cohort = "A" /\ Returned /\ input \in ScenarioInputsA) =>
        /\ \A i \in DOMAIN rows : rows[i].v["bairro"] \in {BairrosA[1], "OTHER"}
        /\ \E i \in DOMAIN rows : rows[i].v["bairro"] = "OTHER"
        /\ Cardinality(DOMAIN violations) = 0

\* the raw record of an input row without its position
RawB(r) == [c \in {"DT_SIN_PRI", "NU_IDADE_N", "CS_SEXO"} |-> r.v[c]]

\* scenario B with n records sharing every quasi-identifier value: the first
\* n rows are one record with a date that parses, the last row is the same
\* record with the other sex
IsScenarioB(inp, n) ==
    /\ Len(inp) = n + 1
    /\ n >= 2
    /\ \A i \in 1..n : RawB(inp[i]) = RawB(inp[1])
    /\ to_datetime(inp[1].v["DT_SIN_PRI"]) # NaT
    /\ RawB(inp[n + 1]) # RawB(inp[1])
    /\ [RawB(inp[n + 1]) EXCEPT !["CS_SEXO"] = inp[1].v["CS_SEXO"]] = RawB(inp[1])

Indices(rs) == {rs[i].idx : i \in DOMAIN rs}

\* the statement of C4 as it was made: with two records sharing every
\* quasi-identifier value and a singleton of the other sex, only the
\* singleton is removed and the Validator passes
C4_ScenarioB_Original ==
    (cohort = "B" /\ pc = "validated" /\ IsScenarioB(input, 2)) =>
        /\ Len(rows) = Len(input) - 1
        /\ Indices(rows) = {0, 1}
        /\ issues = {}

\* C4: scenario B, amended: with n records sharing every quasi-identifier
\* value and one record of the other sex, the ladder is exhausted and
\* suppression removes exactly the singleton when n >= k (final count =
\* original - 1) and all n + 1 records when n < k; the Validator's
\* k-anonymity check passes on the result.
C4_ScenarioB ==
    \A n \in 2..(MaxRecs + 1) :
        (cohort = "B" /\ pc = "validated" /\ IsScenarioB(input, n)) =>
            /\ applied = <<"age_2bucket", "temporal_half_year", "age_all_ages",
                           "suppression">>
            /\ IF n >= K_ANONYMITY_THRESHOLD
               THEN /\ Len(rows) = Len(input) - 1
                    /\ Indices(rows) = 0..(n - 1)
                    /\ reported = 1
               ELSE /\ rows = <<>>
                    /\ reported = n + 1
            /\ issues = {}

C4_Witness ==
    /\ cohort = "B" /\ pc = "validated"
    /\ IsScenarioB(input, K_ANONYMITY_THRESHOLD)
    /\ Len(rows) = K_ANONYMITY_THRESHOLD
    /\ "suppression" \in Range(applied)

\* the starting-level buckets of a raw record
StartA(r) ==
    [year_month |-> generalize_date_to_month(r.v["data"]),
     age_bin |-> astype_str(pd_cut(r.v["idade"])),
     sexo |-> r.v["sexo"],
     bairro |-> r.v["bairro"]]

StartB(r) ==
    [DT_SIN_PRI_month |-> generalize_date_to_month(r.v["DT_SIN_PRI"]),
     age_group |-> astype_str(pd_cut(age_years_of(r.v["NU_IDADE_N"]))),
     CS_SEXO |-> r.v["CS_SEXO"]]

Start(c, r) == IF c = "A" THEN StartA(r) ELSE StartB(r)

\* the quasi-identifier values a returned row holds
Held(c, r) == [q \in Range(QisOf(c)) |-> r.v[q]]

\* every class of the input, at the starting level, has at least k records
CompliantAtStart(c, inp) ==
    \A i \in DOMAIN inp :
        Cardinality({n \in DOMAIN inp : Start(c, inp[n]) = Start(c, inp[i])})
            >= K_ANONYMITY_THRESHOLD

\* C5: scenario C: when every class of the input has at least k records at
\* the starting level, the run applies no escalation step and no
\* suppression, and the returned records are the input records with their
\* starting-level buckets, up to row order.
C5_CompliantInputUnchanged ==
    (Returned /\ CompliantAtStart(cohort, input)) =>
        /\ applied = <<>>
        /\ reported = 0
        /\ Len(rows) = Len(input)
        /\ \A i \in DOMAIN input :
              Cardinality({n \in DOMAIN rows : Held(cohort, rows[n]) = Start(cohort, input[i])})
              = Cardinality({n \in DOMAIN input : Start(cohort, input[n]) = Start(cohort, input[i])})

C5_Witness ==
    /\ Returned
    /\ CompliantAtStart(cohort, input)
    /\ Len(input) >= K_ANONYMITY_THRESHOLD
    /\ Len(rows) = Len(input)

\* C6: suppression removes a record only if its class is below k in the
\* check that precedes suppression, keeps every record whose class has at
\* least k records, and run again on its own result removes nothing.
C6_SuppressionOnlyViolating ==
    [][pc = "b_suppress" =>
        /\ \A i \in DOMAIN rows :
              /\ ClassSize(rows, i, quasi_ids_sinan) >= K_ANONYMITY_THRESHOLD
                    => rows[i] \in Range(rows')
              /\ rows[i] \notin Range(rows')
                    => /\ Key(rows[i], quasi_ids_sinan) \in DOMAIN violations
                       /\ violations[Key(rows[i], quasi_ids_sinan)]
                             < K_ANONYMITY_THRESHOLD
        /\ Range(rows') \subseteq Range(rows)
        /\ check_k_anonymity(rows', quasi_ids_sinan, K_ANONYMITY_THRESHOLD) = <<>>
        /\ SuppressLoop(rows', quasi_ids_sinan, DOMAIN violations) = rows'
    ]_vars

C6_Witness ==
    /\ cohort = "B" /\ pc = "b_finish"
    /\ "suppression" \in Range(applied)
    /\ Len(rows) > 0
    /\ Len(rows) < Len(input)

StepRank(step) ==
    CASE step = "categorical_other" -> 1
      [] step = "age_2bucket" -> 2
      [] step = "age_all_ages" -> 3
      [] step = "temporal_half_year" -> 4
      [] step = "suppression" -> 5

LadderB == <<"age_2bucket", "temporal_half_year", "age_all_ages", "suppression">>

\* the step sequences a cohort-A run can have: two age buckets inside the
\* age generalisation, the rare-neighbourhood collapse, then the per-class
\* neighbourhood collapse and after it the two age buckets once more
LaddersA ==
    {pre \o post :
        pre \in {<<>>, <<"age_2bucket">>, <<"categorical_other">>,
                 <<"age_2bucket", "categorical_other">>},
        post \in {<<>>, <<"categorical_other">>,
                  <<"categorical_other", "age_2bucket">>}}

C8_MonotonicCoarsening ==
    [][(/\ pc \in {"h_bin4", "h_bin2"}
        /\ rows[1].v[BinColOf(cohort)] = rows[2].v[BinColOf(cohort)])
       => rows'[1].v[BinColOf(cohort)] = rows'[2].v[BinColOf(cohort)]]_vars

\* the states in which `violations` is the check of the current rows
FreshCheck ==
    \/ pc \in {"b_esc_age", "b_semester", "b_all_ages", "b_suppress"}
    \/ pc = "b_finish" /\ "age_group" \in columns
          /\ (applied = <<>> \/ applied[Len(applied)] # "suppression")
    \/ pc \in {"a_collapse", "a_finish"}

\* a missing date is held as NaN, an age outside the bins as the text nan
HasSentinel(c, r) ==
    IF c = "A" THEN r.v["year_month"] = NaNStr \/ r.v["age_bin"] = "nan"
    ELSE r.v["DT_SIN_PRI_month"] = NaNStr \/ r.v["age_group"] = "nan"

\* C9: a record with a sentinel bucket is counted by the checker like any
\* other: when its class has fewer than k records, the check reports the
\* class with its size.
C9_SentinelClassesChecked ==
    FreshCheck =>
        \A i \in DOMAIN rows :
            (HasSentinel(cohort, rows[i])
             /\ ClassSize(rows, i, QisOf(cohort)) < K_ANONYMITY_THRESHOLD)
            => /\ Key(rows[i], QisOf(cohort)) \in DOMAIN violations
               /\ violations[Key(rows[i], QisOf(cohort))]
                     = ClassSize(rows, i, QisOf(cohort))

\* the columns that hold an exact date or an exact age
ExactColsA == {"data", "data_original", "idade"}

ExactColsB == date_cols \cup {"NU_IDADE_N", "age_years"}

\* the statement of C10 as it was made: neither output has a column with an
\* exact date or an exact age
C10_NoExactValues_Original ==
    Returned =>
        columns \cap (IF cohort = "A" THEN ExactColsA ELSE ExactColsB) = {}

\* C10, amended: the output of cohort B has no column with an exact date or
\* an exact age, only the month columns and age_group; the output of cohort
\* A has no exact date, has year_month and age_bin, and keeps the exact
\* numeric age of every record in idade.
C10_NoExactValues ==
    Returned =>
        IF cohort = "B"
        THEN /\ columns \cap ExactColsB = {}
             /\ {"DT_SIN_PRI_month", "age_group"} \subseteq columns
        ELSE /\ columns \cap {"data", "data_original"} = {}
             /\ {"year_month", "age_bin", "idade"} \subseteq columns
             /\ Len(rows) = Len(input)
             /\ \A i \in DOMAIN rows :
                   rows[i].v["idade"]
                      = input[Permutation42[Len(input) + 1][i] + 1].v["idade"]

C10_Witness ==
    /\ Returned
    /\ cohort = "A"
    /\ "idade" \in columns
    /\ \E i \in DOMAIN rows : rows[i].v["idade"] = AgesA[1]

\* C11: every column on the Validator's denylist of direct identifiers for a
\* cohort is dropped by that cohort's anonymizer when the input carries it, so
\* the file just written holds none of them and the Validator's check of PII
\* fields reports none found.
C11_DenylistDropped ==
    Returned =>
        /\ found_pii(cohort, file) = {}
        /\ (DatasetName(cohort) \o ": Found PII fields") \notin issues

\* C12: the output of each cohort carries a fresh record identifier assigned
\* after the rows are reordered: the identifiers are exactly 1..N, one per
\* record, in the order of the rows.
C12_FreshIds ==
    Returned =>
        /\ "id" \in columns
        /\ \A i \in DOMAIN rows : rows[i].v["id"] = i

\* the Validator has ended, by sys.exit or by an uncaught exception
ValidatorEnded == pc \in {"exit_0", "exit_1", "v_error"}

\* C13: the Validator always runs all four check categories and ends with
\* the summary: every issue of the PII and k-anonymity categories is in the
\* final list, and the exit status is 0 exactly when no category reported an
\* issue, non-zero otherwise.
C13_ValidatorExit ==
    ValidatorEnded =>
        /\ pc \in {"exit_0", "exit_1"}
        /\ check_pii_fields(cohort, file) \subseteq issues
        /\ (IF cohort = "A" THEN Validator_RTPCR(file)
            ELSE Validator_SINAN(file)) \subseteq issues
        /\ (pc = "exit_0") <=> (issues = {})

\* the Validator's check_k_anonymity has run on the file of the cohort
KChecked == pc \in {"validated", "v_docs", "v_scripts", "exit_0", "exit_1"}

\* C14: the Validator and the engine's checker agree on every record set:
\* the Validator reports a k-anonymity failure for the records the anonymizer
\* returned exactly when check_k_anonymity, with the cohort's quasi-identifiers
\* and k = K_ANONYMITY_THRESHOLD, finds a violating class in those records.
C14_ValidatorAgreesWithEngine ==
    KChecked =>
        ((DatasetName(cohort) \o ": K-anonymity violated") \in issues
         <=> Cardinality(DOMAIN check_k_anonymity(rows, QisOf(cohort),
                                                   K_ANONYMITY_THRESHOLD)) > 0)

\* C15: an expected quasi-identifier or identifier column absent from the
\* input makes the anonymizer and the Validator skip the step concerned: no
\* absent column ends a run in an exception.
C15_AbsentColumnsSkipped == pc \notin {"a_error", "v_error"}

\* the labels of the three age levels
AgeLabels == {"0-17", "18-39", "40-59", "60+", "0-39", "40+", "ALL_AGES"}

\* C16: the lookup from age label to midpoint is total: each of 0-17, 18-39,
\* 40-59, 60+, 0-39, 40+ and ALL_AGES resolves to one fixed number, the same
\* for every record with the label, and any other label resolves to the
\* fallback, a missing value, without raising.
C16_MidpointLookupTotal ==
    pc = "h_mid" =>
        \A i \in DOMAIN rows :
            /\ rows[i].v["age_group"] \in AgeLabels =>
                  /\ rows[i].v["idade"] # NaN
                  /\ rows[i].v["idade"] \in 0..1200
                  /\ \A j \in DOMAIN rows :
                        rows[j].v["age_group"] = rows[i].v["age_group"] =>
                            rows[j].v["idade"] = rows[i].v["idade"]
            /\ rows[i].v["age_group"] \notin AgeLabels =>
                  rows[i].v["idade"] = NaN

\* a frame loaded with a record whose label is none of the seven and a
\* record of the label 0-17
C16_Witness ==
    /\ pc = "h_mid"
    /\ rows[1].v["age_group"] \notin AgeLabels
    /\ rows[1].v["idade"] = NaN
    /\ rows[2].v["age_group"] = "0-17"
    /\ rows[2].v["idade"] = 85

\* C17: every label the anonymizer can write into age_group, whatever the
\* age of the input record (missing and at or above the top bin edge
\* included), is a key of AGE_GROUP_MIDPOINTS.
C17_LabelsAreMidpointKeys ==
    (cohort = "B" /\ pc \in {"h_bin4", "h_bin2", "h_all"}) =>
        \A i \in DOMAIN rows :
            rows[i].v["age_group"] \in DOMAIN AGE_GROUP_MIDPOINTS

\* the level of an age label: four bins (or no bin), two buckets, all ages
AgeLevel(l) ==
    IF l = "ALL_AGES" THEN 3 ELSE IF l \in {"0-39", "40+"} THEN 2 ELSE 1

\* the level of a neighbourhood: as given, or OTHER
BairroLevel(b) == IF b = "OTHER" THEN 2 ELSE 1

\* the level of a period: month (or none), or half-year
TimeLevel(p) == IF p \in Range(semester_mapping) THEN 2 ELSE 1

\* the statement of C18 as it was made: once the age labels are written, all
\* records are at the same level of age and of neighbourhood
C18_GlobalSteps_Original ==
    BinColOf(cohort) \in columns =>
        \A i, j \in DOMAIN rows :
            /\ AgeLevel(rows[i].v[BinColOf(cohort)])
               = AgeLevel(rows[j].v[BinColOf(cohort)])
            /\ "bairro" \in columns =>
                  BairroLevel(rows[i].v["bairro"]) = BairroLevel(rows[j].v["bairro"])

\* the rows outside the classes the last check reported
Compliant(rs, qis, v) ==
    {i \in DOMAIN rs : HasNaNKey(rs[i], qis) \/ Key(rs[i], qis) \notin DOMAIN v}

\* C18, amended: the two-bucket step, the all-ages step and the collapse of the
\* neighbourhood of violating classes rewrite only the records of the classes
\* the preceding check reported and leave every other record as it is, so
\* records of different levels stand side by side; only the half-year step
\* (every record whose period is in the mapping) and the collapse of the
\* neighbourhoods with fewer than k records overall act on the whole dataset.
C18_ClasswiseSteps ==
    [][/\ pc \in {"b_esc_age", "b_all_ages", "a_collapse", "a_broaden"} =>
            \A i \in Compliant(rows, QisOf(cohort), violations) :
                rows'[i] = rows[i]
       /\ pc = "b_semester" =>
            \A i \in DOMAIN rows :
                rows'[i].v["DT_SIN_PRI_month"] \notin DOMAIN semester_mapping
       /\ pc = "a_rare" =>
            \A i \in DOMAIN rows :
                rows'[i].v["bairro"] \notin rare_neighborhoods(rows)]_vars

\* a returned frame in which a record of a four-bin label stands next to a
\* record of a two-bucket label
C18_Witness ==
    /\ Returned
    /\ BinColOf(cohort) \in columns
    /\ "age_2bucket" \in Range(applied)
    /\ \E i, j \in DOMAIN rows :
          /\ AgeLevel(rows[i].v[BinColOf(cohort)]) = 1
          /\ AgeLevel(rows[j].v[BinColOf(cohort)]) = 2

\* a step of the ladder is applied in this transition
StepApplied == applied' # applied

\* the program holds the checker's result on the records as they are now,
\* and it reports at least one violating class
CheckedAndViolating ==
    /\ violations = check_k_anonymity(rows, QisOf(cohort), K_ANONYMITY_THRESHOLD)
    /\ DOMAIN violations # {}

\* the statement of C19 as it was made: a step that follows another step is
\* applied on a check of the current records that reports a violating class
C19_CheckBetweenSteps_Original ==
    [][(StepApplied /\ applied # <<>>) => CheckedAndViolating]_vars

\* C19, amended: every step of cohort B, and every step of cohort A from the
\* final validation on, is applied on a check of the current records that
\* reports at least one violating class; the first two steps of cohort A
\* are applied without the checker: the collapse of rare neighbourhoods
\* follows the two-bucket step of the small groups with no check run yet.
C19_CheckBetweenSteps ==
    [][/\ (StepApplied /\ pc \notin {"a_age", "a_rare"}) => CheckedAndViolating
       /\ (StepApplied /\ pc \in {"a_age", "a_rare"}) => violations = <<>>]_vars

\* a cohort-A run that applied the two-bucket step and the collapse of rare
\* neighbourhoods, and after the final validation the collapse of the
\* violating classes and the two buckets again
C19_Witness ==
    /\ cohort = "A" /\ Returned
    /\ applied = <<"age_2bucket", "categorical_other", "categorical_other",
                   "age_2bucket">>

\* the column of the period of a cohort
TimeColOf(c) == IF c = "A" THEN "year_month" ELSE "DT_SIN_PRI_month"

\* C20: generalization levels only increase: across every step of a run,
\* for every record and every quasi-identifier attribute, the level of the
\* value held (age: four bins < two buckets < all ages; time: month <
\* half-year; neighbourhood: as given < OTHER) never decreases. The records
\* are followed by their index label; the last step of cohort A, which
\* renumbers them, changes no value.
C20_LevelsOnlyIncrease ==
    [][pc # "a_finish" =>
        \A i \in DOMAIN rows, j \in DOMAIN rows' :
            rows'[j].idx = rows[i].idx =>
                /\ BinColOf(cohort) \in columns \cap columns' =>
                      AgeLevel(rows'[j].v[BinColOf(cohort)])
                      >= AgeLevel(rows[i].v[BinColOf(cohort)])
                /\ TimeColOf(cohort) \in columns \cap columns' =>
                      TimeLevel(rows'[j].v[TimeColOf(cohort)])
                      >= TimeLevel(rows[i].v[TimeColOf(cohort)])
                /\ (cohort = "A" /\ "bairro" \in columns) =>
                      BairroLevel(rows'[j].v["bairro"])
                      >= BairroLevel(rows[i].v["bairro"])]_vars

\* a cohort-B record taken to the half-year and to ALL_AGES
C20_Witness ==
    /\ cohort = "B" /\ pc = "b_suppress"
    /\ \E i \in DOMAIN rows :
          /\ AgeLevel(rows[i].v["age_group"]) = 3
          /\ TimeLevel(rows[i].v["DT_SIN_PRI_month"]) = 2

\* C21: the four-bucket age transform uses the breakpoints 18, 40 and 60 for
\* every non-negative integer age: below 18 gives 0-17, 18 to 39 gives 18-39,
\* 40 to 59 gives 40-59, and every age of 60 or more, the maximum the clipping
\* of cohort B allows included, gives 60+.
C21_FourBuckets ==
    pc = "h_bin4" =>
        \A i \in DOMAIN rows :
            LET a == rows[i].v[AgeColOf(cohort)]
            IN (a # NaN /\ a >= 0) =>
                  rows[i].v[BinColOf(cohort)] =
                      IF a < 18 THEN "0-17"
                      ELSE IF a < 40 THEN "18-39"
                      ELSE IF a < 60 THEN "40-59"
                      ELSE "60+"

\* the half-year of a date: the year, and H1 for the months 01 to 06, H2 for
\* the months 07 to 12
HalfYearLabel(d) ==
    Digit(d[1] \div 1000) \o Digit((d[1] \div 100) % 10)
    \o Digit((d[1] \div 10) % 10) \o Digit(d[1] % 10)
    \o (IF d[2] <= 6 THEN "-H1" ELSE "-H2")

\* C22: the temporal step maps every month label to the half-year label of
\* its year, as a function of the label alone: once the step has been applied
\* every record with a date holds Y-H1 for the months 01 to 06 of year Y and
\* Y-H2 for the months 07 to 12, and none holds a month label.
C22_HalfYearEveryYear ==
    (cohort = "B" /\ "temporal_half_year" \in Range(applied)) =>
        \A i \in DOMAIN rows :
            LET d == to_datetime(input[rows[i].idx + 1].v["DT_SIN_PRI"])
            IN d # NaT => rows[i].v["DT_SIN_PRI_month"] = HalfYearLabel(d)

\* C23: the collapse of rare neighbourhoods is idempotent: applied again to
\* its own result, with OTHER counted as a neighbourhood like any other, it
\* changes no record, also when OTHER itself has fewer than k records.
C23_CollapseIdempotent ==
    [][(cohort = "A" /\ pc = "a_rare") => CollapseRare(rows') = rows']_vars

\* the collapse has left an OTHER bucket of fewer than k records
C23_Witness ==
    /\ cohort = "A" /\ pc = "a_text"
    /\ "OTHER" \in DOMAIN value_counts(rows, "bairro")
    /\ value_counts(rows, "bairro")["OTHER"] < K_ANONYMITY_THRESHOLD
    /\ \E i \in DOMAIN rows : rows[i].v["bairro"] # "OTHER"

\* C24: every run ends after at most as many escalation steps as the ladder
\* has levels, each step applied at most once, and ends either converged (the
\* checker finds no violating class in the returned records) or exhausted
\* with the violating classes suppressed.
C24_BoundedLadder ==
    Returned =>
        /\ \A i, j \in DOMAIN applied : applied[i] = applied[j] => i = j
        /\ \/ check_k_anonymity(rows, QisOf(cohort), K_ANONYMITY_THRESHOLD) = <<>>
           \/ "suppression" \in Range(applied)

\* the classes of the records over the quasi-identifiers that have fewer than
\* k records, each with its size, a missing value being a value like any other
SmallClasses(rs, qis, k) ==
    LET small == {i \in DOMAIN rs : ClassSize(rs, i, qis) < k}
    IN [g \in {Key(rs[i], qis) : i \in small} |->
           Cardinality({n \in DOMAIN rs : Key(rs[n], qis) = g})]

\* C25: check_k_anonymity returns exactly the equivalence-class keys (the
\* tuples of quasi-identifier values in the given order) that have at least
\* one and fewer than k records, each with its exact size.
C25_ExactViolations ==
    FreshCheck =>
        violations = SmallClasses(rows, QisOf(cohort), K_ANONYMITY_THRESHOLD)

\* C26: when suppression runs, the number of suppressed records it reports is
\* the number of records it removes (count before minus count after), and it
\* removes every record of a class it touches: no class loses only part of
\* its records, and every violating class is gone.
C26_SuppressionCount ==
    [][(cohort = "B" /\ pc = "b_suppress") =>
        /\ reported' = Len(rows) - Len(rows')
        /\ \A i \in DOMAIN rows :
              LET kept(n) == \E m \in DOMAIN rows' : rows'[m].idx = rows[n].idx
              IN /\ Key(rows[i], quasi_ids_sinan) \in DOMAIN violations
                        => ~kept(i)
                 /\ ~kept(i) =>
                        \A n \in ClassOf(rows, i, quasi_ids_sinan) : ~kept(n)]_vars

\* a run in which suppression removed several records and kept others
C26_Witness ==
    /\ cohort = "B" /\ pc = "b_finish"
    /\ "suppression" \in Range(applied)
    /\ reported >= 2
    /\ Len(rows) >= 1
    /\ reported = Len(input) - Len(rows)

\* the scripts run_script was called for, in the order of the calls
Attempted ==
    LET calls == SelectSeq(events, LAMBDA e : e[1] \in {"start", "not found"})
    IN [p \in DOMAIN calls |-> calls[p][2]]

Succeeded(script) == <<"end", script, "ok">> \in Range(events)

MainReturned == pc \in {"r_exit_0", "r_exit_1"}

\* C27: run_all takes the scripts of its list once each and in list order, a
\* script starts only after the one before it has ended, a failing or missing
\* script does not keep the later ones from being taken, and main returns 0
\* exactly when every script succeeded and 1 when at least one did not.
C27_PipelineOrder ==
    /\ Attempted = SubSeq(SCRIPTS, 1, Len(Attempted))
    /\ \A p \in DOMAIN events :
          /\ events[p][1] = "end" =>
                p > 1 /\ events[p - 1] = <<"start", events[p][2]>>
          /\ (events[p][1] = "start" /\ p < Len(events)) =>
                events[p + 1][1] = "end" /\ events[p + 1][2] = events[p][2]
    /\ MainReturned =>
          /\ Attempted = SCRIPTS
          /\ events[Len(events)][1] # "start"
          /\ pc = "r_exit_0" <=> \A n \in DOMAIN SCRIPTS : Succeeded(SCRIPTS[n])
          /\ pc = "r_exit_1" <=> \E n \in DOMAIN SCRIPTS : ~Succeeded(SCRIPTS[n])

\* a finished pipeline whose first script was missing and whose second failed,
\* with the last script run to success
C27_Witness ==
    /\ pc = "r_exit_1"
    /\ events[1] = <<"not found", SCRIPTS[1]>>
    /\ events[3] = <<"end", SCRIPTS[2], "CalledProcessError">>
    /\ Succeeded(SCRIPTS[Len(SCRIPTS)])

\* the position of record i of rs in the next frame, or 0 when it is gone
After(rs, i, next) ==
    IF \E m \in DOMAIN next : next[m].idx = rs[i].idx
    THEN CHOOSE m \in DOMAIN next : next[m].idx = rs[i].idx
    ELSE 0

EscalationSteps ==
    {"a_collapse", "a_broaden", "b_esc_age", "b_semester", "b_all_ages",
     "b_suppress"}

\* C28: once compliant, always compliant: a record that is in a class of at
\* least k records before an escalation step or the suppression is still
\* present after it, in a class of at least k records that holds every record
\* of its former class; by induction this holds from any check to every later
\* step of the run.
C28_CompliantStays ==
    [][(pc \in EscalationSteps) =>
        LET qis == QisOf(cohort)
        IN \A i \in DOMAIN rows :
              ClassSize(rows, i, qis) >= K_ANONYMITY_THRESHOLD =>
                 LET m == After(rows, i, rows')
                 IN /\ m # 0
                    /\ ClassSize(rows', m, qis) >= K_ANONYMITY_THRESHOLD
                    /\ \A n \in ClassOf(rows, i, qis) :
                          LET q == After(rows, n, rows')
                          IN q # 0 /\ Key(rows'[q], qis) = Key(rows'[m], qis)]_vars

\* a cohort-B run that suppressed a violating record beside a class of k
\* records, which is returned whole
C28_Witness ==
    /\ cohort = "B" /\ pc = "b_finish"
    /\ "suppression" \in Range(applied)
    /\ Len(rows) >= K_ANONYMITY_THRESHOLD
    /\ Len(rows) < Len(input)
    /\ \A i \in DOMAIN rows :
          ClassSize(rows, i, quasi_ids_sinan) >= K_ANONYMITY_THRESHOLD

\* the row labels of a frame, in row order
Labels(rs) == [i \in DOMAIN rs |-> rs[i].idx]

\* the number of rows of rs that hold the values r holds over the columns cs
Copies(rs, r, cs) ==
    Cardinality({i \in DOMAIN rs : \A c \in cs : rs[i].v[c] = r.v[c]})

\* C29: records are only removed by the suppression step: every other step
\* keeps the rows and their order, the final shuffle of cohort A returns each
\* row once (under a new id), and the suppression keeps rows of the frame in their order and
\* removes only rows of the classes it was given; so cohort A returns as many
\* records as it read and cohort B the records it read without the suppressed
\* ones.
C29_OnlySuppressionRemoves ==
    [][/\ (pc \notin {"b_suppress", "a_finish"}) => Labels(rows') = Labels(rows)
       /\ (pc = "a_finish") =>
             /\ Len(rows') = Len(rows)
             /\ \A i \in DOMAIN rows :
                   LET cs == (columns \cap columns') \ {"id"}
                   IN Copies(rows', rows[i], cs) = Copies(rows, rows[i], cs)
       /\ (pc = "b_suppress") =>
             /\ \A m, n \in DOMAIN rows' :
                   m < n => \E i, j \in DOMAIN rows :
                               /\ i < j
                               /\ rows[i].idx = rows'[m].idx
                               /\ rows[j].idx = rows'[n].idx
             /\ \A m \in DOMAIN rows' : \E i \in DOMAIN rows : rows[i] = rows'[m]
             /\ \A i \in DOMAIN rows :
                   After(rows, i, rows') = 0 =>
                      Key(rows[i], quasi_ids_sinan) \in DOMAIN violations]_vars

\* a cohort-B run has returned some of the records it read and not the others
C29_Witness ==
    /\ cohort = "B" /\ pc = "done"
    /\ Len(rows) >= 1
    /\ Len(rows) < Len(input)
    /\ Indices(rows) \subseteq Indices(input)

\* C30: at the end of a cohort-A run every neighbourhood value other than
\* OTHER that occurs in the returned records is carried by at least k of them.
C30_NamedNeighborhoodsLarge ==
    (cohort = "A" /\ pc = "done") =>
        \A i \in DOMAIN rows :
            rows[i].v["bairro"] \notin {"OTHER", NaNStr} =>
                value_counts(rows, "bairro")[rows[i].v["bairro"]]
                    >= K_ANONYMITY_THRESHOLD
====
